---- MODULE Spec2Model ----
(***************************************************************************)
(* Model of server.js: the GET /connections handler and the five remote    *)
(* calls it makes (station search, session creation, journey search,       *)
(* exchange-rate lookup, price lookup).  Every await of the handler is a   *)
(* point where other requests' continuations may run, so each action is    *)
(* one synchronous run of the handler: from the arrival of the request, or *)
(* from the completion of a remote call, up to the next await or response. *)
(*                                                                         *)
(* Conventions.  A JavaScript value that may be undefined is an option:    *)
(* <<>> for undefined, <<v>> for v.  Strings whose characters the code     *)
(* inspects (timestamps, numeric query parameters, line tokens) are        *)
(* sequences of one-character strings; opaque strings are TLA+ strings.    *)
(* Amounts of money are integers in hundredths; an exchange rate is a      *)
(* rational [num, den].                                                    *)
(***************************************************************************)
EXTENDS Integers, Sequences, FiniteSets, TLC

VARIABLES pc, locals, fromSt, toSt, sessionID, handle, connections,
          czkRate, prices, calls, responses, errlog, probe

vars == <<pc, locals, fromSt, toSt, sessionID, handle, connections,
          czkRate, prices, calls, responses, errlog, probe>>

(***************************************************************************)
(* Bounds of the model.                                                    *)
(***************************************************************************)
NumReqs == 2
MaxConns == 2
MaxPrices == 3
MaxRawPrice == 60

\* The longest line-label token tried.
MaxTokLen == 2

\* The largest absolute epoch-millisecond value tried.
MaxMs == 60

Reqs == 1..NumReqs

(***************************************************************************)
(* Options and small helpers.                                              *)
(***************************************************************************)
None == <<>>
Some(v) == <<v>>
IsSome(o) == o # <<>>
Get(o) == o[1]

Throw(msg) == [ok |-> FALSE, err |-> msg, val |-> None]
Return(v) == [ok |-> TRUE, err |-> "", val |-> v]

SeqsUpTo(S, n) == UNION {[1..k -> S] : k \in 0..n}

(***************************************************************************)
(* Character strings: digits, Number(), parseInt(), template literals.     *)
(***************************************************************************)
Digit == {"0", "1", "2", "3", "4", "5", "6", "7", "8", "9"}

DigitVal(c) ==
  CASE c = "0" -> 0 [] c = "1" -> 1 [] c = "2" -> 2 [] c = "3" -> 3
    [] c = "4" -> 4 [] c = "5" -> 5 [] c = "6" -> 6 [] c = "7" -> 7
    [] c = "8" -> 8 [] c = "9" -> 9

DigitChar(d) ==
  CASE d = 0 -> "0" [] d = 1 -> "1" [] d = 2 -> "2" [] d = 3 -> "3"
    [] d = 4 -> "4" [] d = 5 -> "5" [] d = 6 -> "6" [] d = 7 -> "7"
    [] d = 8 -> "8" [] d = 9 -> "9"

RECURSIVE DigitsValue(_)
DigitsValue(s) ==
  IF s = <<>> THEN 0
  ELSE 10 * DigitsValue(SubSeq(s, 1, Len(s) - 1)) + DigitVal(s[Len(s)])

RECURSIVE NatToString(_)
NatToString(n) ==
  IF n < 10 THEN <<DigitChar(n)>>
  ELSE NatToString(n \div 10) \o <<DigitChar(n % 10)>>

\* String(n) of a number n, NaN being None: what `${depMs}` interpolates.
NumToString(n) ==
  IF ~IsSome(n) THEN <<"N", "a", "N">>
  ELSE IF Get(n) < 0 THEN <<"-">> \o NatToString(-Get(n))
  ELSE NatToString(Get(n))

\* Number(s) for a string of decimal digits (possibly empty) and NaN (None)
\* for a string holding any other character.
NumberOf(s) ==
  IF \A i \in 1..Len(s) : s[i] \in Digit THEN Some(DigitsValue(s)) ELSE None

\* raw.replace(/\D/g, '')
RECURSIVE StripNonDigits(_)
StripNonDigits(s) ==
  IF s = <<>> THEN <<>>
  ELSE (IF Head(s) \in Digit THEN <<Head(s)>> ELSE <<>>) \o StripNonDigits(Tail(s))

\* parseInt(digits, 10) of a string of digits: NaN (None) when it is empty.
ParseInt(s) == IF s = <<>> THEN None ELSE Some(DigitsValue(s))

\* `/Date(${depMs})/`
DateLiteral(ms) ==
  <<"/", "D", "a", "t", "e", "(">> \o NumToString(ms) \o <<")", "/">>

\* parseDate(raw): the instant, as epoch milliseconds; toISOString() throws a
\* RangeError on an invalid date (NaN).
parseDate(raw) ==
  LET ms == ParseInt(StripNonDigits(raw))
  IN IF IsSome(ms) THEN Return(Get(ms)) ELSE Throw("Invalid time value")

(***************************************************************************)
(* HTTP responses of the remote services.  net is FALSE when fetch itself  *)
(* rejects (no response); ok is res.ok; json is the parsed body, None when *)
(* the body is not JSON (res.json() rejects).                              *)
(***************************************************************************)
NetErr == [net |-> FALSE, ok |-> FALSE, json |-> None]
Http(ok, json) == [net |-> TRUE, ok |-> ok, json |-> json]

\* Mutant of postJSON: res.ok is not checked.
postJSONNoStatusCheck(url, resp) ==
  IF ~resp.net THEN Throw("request to " \o url \o " failed")
  ELSE IF ~IsSome(resp.json) THEN Throw("invalid json response body")
  ELSE Return(Get(resp.json))

\* postJSON(url, body): the parsed JSON of a successful response, or a throw.
postJSON(url, resp) ==
  IF ~resp.net THEN Throw("request to " \o url \o " failed")
  ELSE IF ~resp.ok THEN Throw("POST " \o url \o " -> HTTP error")
  ELSE IF ~IsSome(resp.json) THEN Throw("invalid json response body")
  ELSE Return(Get(resp.json))

\* searchStation(mask): {id, name} of the first item of json.d.
searchStation(mask, resp) ==
  LET r == postJSON("SearchGlobalListItemInfoExt", resp)
  IN IF ~r.ok THEN r
     ELSE LET d == IF IsSome(r.val.d) THEN Get(r.val.d) ELSE <<>>
              item == IF d = <<>> THEN None ELSE d[1].oItem
          IN IF ~IsSome(item) THEN Throw("Station not found: " \o mask)
             ELSE Return([id |-> Get(item).iListID, name |-> Get(item).sName])

\* createSession(): json.d?.sSessionID, an option (undefined when absent).
createSession(resp) ==
  LET r == postJSON("CreateSession", resp)
  IN IF ~r.ok THEN r
     ELSE Return(IF IsSome(r.val.d) THEN Get(r.val.d).sSessionID ELSE None)

\* searchJourneys(...): {handle, connections} of json.d.
searchJourneys(resp) ==
  LET r == postJSON("SearchConnectionInfo1", resp)
  IN IF ~r.ok THEN r
     ELSE IF ~IsSome(r.val.d) THEN Throw("Malformed journey response")
     ELSE LET d == Get(r.val.d)
          IN Return([handle |-> d.iHandle,
                     connections |->
                       IF IsSome(d.oConnInfo) /\ IsSome(Get(d.oConnInfo).aoConnections)
                       THEN Get(Get(d.oConnInfo).aoConnections)
                       ELSE <<>>])

\* The body of the journey-search request built by searchJourneys.
JourneyBody(sid, from, to, depMs, travelClass, age) ==
  [sSessionID |-> sid, oFrom |-> from, oTo |-> to,
   dtDateTime |-> DateLiteral(depMs), iClass |-> travelClass, iAge |-> age]

\* The body of the price request built by getPrices.
PriceBody(sid, h, connIDs, travelClass, age) ==
  [sSessionID |-> sid, iHandle |-> h, aiConnID |-> connIDs,
   iClass |-> travelClass, iAge |-> age]

(***************************************************************************)
(* Prices.  A rate is a rational [num, den]; x.toFixed(2) of the rational  *)
(* n/d is the integer number of hundredths nearest to it, the larger one   *)
(* of two equally near (the sign is treated apart, as toFixed does).  The  *)
(* binary rounding of the division itself is not modelled.                 *)
(***************************************************************************)
RoundDiv(n, d) ==
  IF n >= 0 THEN (2 * n + d) \div (2 * d) ELSE -((2 * (-n) + d) \div (2 * d))

ToFixed2(n, d) == RoundDiv(100 * n, d)

DefaultRate == [num |-> 1, den |-> 1]

\* Mutant of PriceOf: the amount is multiplied by the rate.
PriceOfTimes(item, rate) ==
  LET p == IF IsSome(item.iPrice) THEN Get(item.iPrice) ELSE 0
  IN [czk |-> ToFixed2(p, 100),
      eur |-> ToFixed2(p * rate.num, 100 * rate.den)]

\* One element of list.map(item => ...) in getPrices: czk = (iPrice || 0) / 100,
\* eur = czk / czkRate, both through toFixed(2).
PriceOf(item, rate) ==
  LET p == IF IsSome(item.iPrice) THEN Get(item.iPrice) ELSE 0
  IN [czk |-> ToFixed2(p, 100),
      eur |-> ToFixed2(p * rate.den, 100 * rate.num)]

\* Mutant of PriceList: entries without a price are filtered out.
PriceListPriced(list, rate) ==
  LET priced == SelectSeq(list, LAMBDA item : IsSome(item.iPrice))
  IN [i \in 1..Len(priced) |-> PriceOf(priced[i], rate)]

\* list.map(...) of getPrices over the list json.d || [].
PriceList(list, rate) == [i \in 1..Len(list) |-> PriceOf(list[i], rate)]

\* getPrices(...): one {czk, eur} per entry of json.d.
getPrices(resp, rate) ==
  LET r == postJSON("GetConnectionsPrice", resp)
  IN IF ~r.ok THEN r
     ELSE Return(PriceList(IF IsSome(r.val.d) THEN Get(r.val.d) ELSE <<>>, rate))

\* Mutant of fetchCzkRate: a missing rate is an error, there is no fallback.
fetchCzkRateStrict(resp) ==
  IF ~resp.net THEN Throw("request to api.frankfurter.dev failed")
  ELSE IF ~IsSome(resp.json) THEN Throw("invalid json response body")
  ELSE LET j == Get(resp.json)
           czk == IF IsSome(j.rates) THEN Get(j.rates).CZK ELSE None
       IN IF IsSome(czk) /\ Get(czk).num # 0 THEN Return(Get(czk))
          ELSE Throw("No CZK rate")

\* fetchCzkRate(): json.rates?.CZK || 1; res.ok is not looked at.
fetchCzkRate(resp) ==
  IF ~resp.net THEN Throw("request to api.frankfurter.dev failed")
  ELSE IF ~IsSome(resp.json) THEN Throw("invalid json response body")
  ELSE LET j == Get(resp.json)
           czk == IF IsSome(j.rates) THEN Get(j.rates).CZK ELSE None
       IN Return(IF IsSome(czk) /\ Get(czk).num # 0 THEN Get(czk) ELSE DefaultRate)

(***************************************************************************)
(* Response assembly.                                                      *)
(***************************************************************************)
\* Mutant of FilterBoolean: only the absent tokens are dropped, '' is kept.
FilterDefined(toks) ==
  SelectSeq(toks, LAMBDA t : IsSome(t))

\* [..].filter(Boolean): undefined and '' are dropped.
FilterBoolean(toks) ==
  SelectSeq(toks, LAMBDA t : IsSome(t) /\ Get(t) # <<>>)

\* .join(' ')
RECURSIVE JoinSpace(_)
JoinSpace(toks) ==
  IF toks = <<>> THEN <<>>
  ELSE IF Len(toks) = 1 THEN Get(toks[1])
  ELSE Get(toks[1]) \o <<" ">> \o JoinSpace(Tail(toks))

\* .trim()
RECURSIVE Trim(_)
Trim(s) ==
  IF s = <<>> THEN s
  ELSE IF Head(s) = " " THEN Trim(Tail(s))
  ELSE IF s[Len(s)] = " " THEN Trim(SubSeq(s, 1, Len(s) - 1))
  ELSE s

lineName(leg) ==
  Trim(JoinSpace(FilterBoolean(<<leg.sType, leg.sNum1, leg.sNum2, leg.sNum3>>)))

\* A leg of the output; parseDate throws on a timestamp without digits.
LegFails(leg) == ~parseDate(leg.dtDateTime1).ok \/ ~parseDate(leg.dtDateTime2).ok

LegOut(leg) ==
  [depTime |-> parseDate(leg.dtDateTime1).val,
   arrTime |-> parseDate(leg.dtDateTime2).val,
   depName |-> leg.sStationName1,
   destName |-> leg.sStationName2,
   lineName |-> lineName(leg)]

\* The error of the i-th callback of connections.map((c, i) => ...), or "".
RecordError(conns, ps, i) ==
  IF i > Len(ps) THEN "Cannot read properties of undefined (reading 'czk')"
  ELSE IF ~IsSome(conns[i].aoTrains)
       THEN "Cannot read properties of undefined (reading 'length')"
  ELSE IF \E k \in 1..Len(Get(conns[i].aoTrains)) : LegFails(Get(conns[i].aoTrains)[k])
       THEN "Invalid time value"
  ELSE ""

\* Mutant of RecordOut: transfers is the number of legs.
RecordOutLegCount(conns, ps, i) ==
  [id |-> conns[i].iID,
   priceCzk |-> ps[i].czk,
   priceEur |-> ps[i].eur,
   transfers |-> Len(Get(conns[i].aoTrains)),
   legs |-> [k \in 1..Len(Get(conns[i].aoTrains)) |-> LegOut(Get(conns[i].aoTrains)[k])]]

\* Mutant of RecordOut: the prices are taken in the reverse order.
RecordOutReversed(conns, ps, i) ==
  [id |-> conns[i].iID,
   priceCzk |-> ps[Len(conns) - i + 1].czk,
   priceEur |-> ps[Len(conns) - i + 1].eur,
   transfers |-> Len(Get(conns[i].aoTrains)) - 1,
   legs |-> [k \in 1..Len(Get(conns[i].aoTrains)) |-> LegOut(Get(conns[i].aoTrains)[k])]]

RecordOut(conns, ps, i) ==
  [id |-> conns[i].iID,
   priceCzk |-> ps[i].czk,
   priceEur |-> ps[i].eur,
   transfers |-> Len(Get(conns[i].aoTrains)) - 1,
   legs |-> [k \in 1..Len(Get(conns[i].aoTrains)) |-> LegOut(Get(conns[i].aoTrains)[k])]]

\* connections.map((c, i) => ({...})): the array, or the first throw.
Assemble(conns, ps) ==
  LET bad == {i \in 1..Len(conns) : RecordError(conns, ps, i) # ""}
  IN IF bad # {}
     THEN Throw(RecordError(conns, ps, CHOOSE i \in bad : \A j \in bad : i <= j))
     ELSE Return([i \in 1..Len(conns) |-> RecordOut(conns, ps, i)])

(***************************************************************************)
(* The handler's state.  pc[r] is the await the handler of request r is    *)
(* suspended at; calls[r] is the sequence of remote calls it has issued,   *)
(* each with its request body and, once it has completed, its response;    *)
(* responses[r] is what has been sent to the client and errlog[r] what     *)
(* console.error has printed.  The other variables are the handler's       *)
(* local constants, None until assigned.  probe holds the argument and the *)
(* result of a helper function in the specifications that run one alone.   *)
(***************************************************************************)
NoLocals == [from |-> None, to |-> None, dep |-> None, age |-> None, cls |-> None]

NoRequest ==
  /\ pc = [r \in Reqs |-> "idle"]
  /\ locals = [r \in Reqs |-> NoLocals]
  /\ fromSt = [r \in Reqs |-> None]
  /\ toSt = [r \in Reqs |-> None]
  /\ sessionID = [r \in Reqs |-> None]
  /\ handle = [r \in Reqs |-> None]
  /\ connections = [r \in Reqs |-> <<>>]
  /\ czkRate = [r \in Reqs |-> None]
  /\ prices = [r \in Reqs |-> None]
  /\ calls = [r \in Reqs |-> <<>>]
  /\ responses = [r \in Reqs |-> <<>>]
  /\ errlog = [r \in Reqs |-> <<>>]

\* No request has arrived; probe, the argument and result of a helper function
\* run on its own, is not in use.
Init == NoRequest /\ probe = None

Call(kind, body) == [kind |-> kind, body |-> body, resp |-> None]

\* The call of request r that is in flight and of the given kind (at index i).
InFlight(r, i, kind) ==
  /\ i \in 1..Len(calls[r])
  /\ calls[r][i].kind = kind
  /\ calls[r][i].resp = None

\* The index in calls[r] of the call of the given kind the handler awaits.
Pending(r, kind) == CHOOSE i \in 1..Len(calls[r]) : InFlight(r, i, kind)

\* Mutant of Answered: a call that ends in a network error is issued again.
AnsweredRetry(r, i, resp) ==
  IF resp.net
  THEN [calls[r] EXCEPT ![i].resp = Some(resp)]
  ELSE Append([calls[r] EXCEPT ![i].resp = Some(resp)],
              Call(calls[r][i].kind, calls[r][i].body))

\* calls[r] with the response of call i recorded.
Answered(r, i, resp) == [calls[r] EXCEPT ![i].resp = Some(resp)]

\* Number(age || -1)
AgeOf(age) == IF IsSome(age) /\ Get(age) # <<>> THEN NumberOf(Get(age)) ELSE Some(-1)

\* Number(req.query['class'] || 2)
ClassOf(cls) == IF IsSome(cls) /\ Get(cls) # <<>> THEN NumberOf(Get(cls)) ELSE Some(2)

\* Mutant of Missing: dep is not validated.
MissingNoDep(q) ==
  \/ ~IsSome(q.from) \/ Get(q.from) = ""
  \/ ~IsSome(q.to) \/ Get(q.to) = ""

\* !from || !to || !dep
Missing(q) ==
  \/ ~IsSome(q.from) \/ Get(q.from) = ""
  \/ ~IsSome(q.to) \/ Get(q.to) = ""
  \/ ~IsSome(q.dep) \/ Get(q.dep) = <<>>

\* res.status(code).json({error: msg}) and res.json(out)
ErrorResponse(code, msg) == [status |-> code, error |-> msg, out |-> <<>>]
OkResponse(out) == [status |-> 200, error |-> "", out |-> out]

\* console.error(err): the line printed, with the number of responses the
\* request had been sent when it was printed.
Logged(r, msg) == [msg |-> msg, at |-> Len(responses[r])]

\* Mutant of Catch: the error is logged and no response is sent.
CatchSilent(r, msg) ==
  /\ errlog' = [errlog EXCEPT ![r] = Append(@, Logged(r, msg))]
  /\ pc' = [pc EXCEPT ![r] = "done"]
  /\ UNCHANGED responses

\* Mutant of Catch: the error body is sent without res.status(500).
CatchNoStatus(r, msg) ==
  /\ errlog' = [errlog EXCEPT ![r] = Append(@, Logged(r, msg))]
  /\ responses' = [responses EXCEPT ![r] = Append(@, ErrorResponse(200, msg))]
  /\ pc' = [pc EXCEPT ![r] = "done"]

\* The catch block: console.error(err); res.status(500).json({error: err.message}).
Catch(r, msg) ==
  /\ errlog' = [errlog EXCEPT ![r] = Append(@, Logged(r, msg))]
  /\ responses' = [responses EXCEPT ![r] = Append(@, ErrorResponse(500, msg))]
  /\ pc' = [pc EXCEPT ![r] = "done"]

\* Mutant of StoreSession: sessionID is a module-level variable, one for all
\* the requests.
StoreSessionShared(r, tok) == [x \in Reqs |-> tok]

\* The assignment of the handler's constant sessionID.
StoreSession(r, tok) == [sessionID EXCEPT ![r] = tok]

\* Mutant of FirstCalls: the rate lookup is started together with the station
\* lookups.
FirstCallsWithRate(q) ==
  <<Call("station", [sMask |-> Get(q.from)]),
    Call("station", [sMask |-> Get(q.to)]),
    Call("rate", [symbols |-> "CZK"])>>

\* Promise.all([searchStation(from), searchStation(to)]): both lookups are
\* called, in this order, before the handler awaits.
FirstCalls(q) ==
  <<Call("station", [sMask |-> Get(q.from)]),
    Call("station", [sMask |-> Get(q.to)])>>

\* The handler from its start to the first await: validation, then both
\* station lookups are started and Promise.all is awaited.
Arrive(r, q) ==
  /\ pc[r] = "idle"
  /\ locals' = [locals EXCEPT ![r] =
                  [from |-> q.from, to |-> q.to, dep |-> q.dep, age |-> q.age,
                   cls |-> ClassOf(q.class)]]
  /\ IF Missing(q)
     THEN /\ responses' = [responses EXCEPT ![r] =
                             Append(@, ErrorResponse(400, "Missing from, to, or dep"))]
          /\ pc' = [pc EXCEPT ![r] = "done"]
          /\ UNCHANGED calls
     ELSE /\ calls' = [calls EXCEPT ![r] = FirstCalls(q)]
          /\ pc' = [pc EXCEPT ![r] = "awaitStations"]
          /\ UNCHANGED responses
  /\ UNCHANGED <<fromSt, toSt, sessionID, handle, connections, czkRate, prices, errlog, probe>>

\* Mutant of BothResolved: the handler goes on when either lookup has resolved.
EitherResolved(f, t) == IsSome(f) \/ IsSome(t)

\* Promise.all([...]) resolves when both lookups have resolved.
BothResolved(f, t) == IsSome(f) /\ IsSome(t)

\* Mutant of Settled: a lookup that completes after the join has rejected is
\* handled as if the handler still awaited it.
SettledNever(r) == FALSE

\* The promise of Promise.all is no longer pending: it has rejected (the
\* handler has answered) or resolved (the handler has gone on).
Settled(r) == pc[r] # "awaitStations"

\* A station lookup completes (i = 1: origin, i = 2: destination).  After
\* Promise.all has rejected, the other lookup's completion changes nothing.
StationReturn(r, i, Resps) ==
  /\ InFlight(r, i, "station")
  /\ \E resp \in Resps :
     LET res == searchStation(calls[r][i].body.sMask, resp)
         f == IF i = 1 /\ res.ok THEN Some(res.val) ELSE fromSt[r]
         t == IF i = 2 /\ res.ok THEN Some(res.val) ELSE toSt[r]
     IN IF Settled(r)
        THEN /\ calls' = [calls EXCEPT ![r] = Answered(r, i, resp)]
             /\ UNCHANGED <<pc, fromSt, toSt, responses, errlog>>
        ELSE IF ~res.ok
        THEN /\ calls' = [calls EXCEPT ![r] = Answered(r, i, resp)]
             /\ Catch(r, res.err)
             /\ UNCHANGED <<fromSt, toSt>>
        ELSE /\ fromSt' = [fromSt EXCEPT ![r] = f]
             /\ toSt' = [toSt EXCEPT ![r] = t]
             /\ IF BothResolved(f, t)
                THEN /\ calls' = [calls EXCEPT ![r] =
                                    Append(Answered(r, i, resp), Call("session", <<>>))]
                     /\ pc' = [pc EXCEPT ![r] = "awaitSession"]
                ELSE /\ calls' = [calls EXCEPT ![r] = Answered(r, i, resp)]
                     /\ UNCHANGED pc
             /\ UNCHANGED <<responses, errlog>>
  /\ UNCHANGED <<locals, sessionID, handle, connections, czkRate, prices, probe>>

\* createSession completes; searchJourneys is called with its result.
SessionReturn(r, Resps) ==
  /\ pc[r] = "awaitSession"
  /\ \E resp \in Resps :
     LET i == Pending(r, "session")
         res == createSession(resp)
     IN IF ~res.ok
        THEN /\ calls' = [calls EXCEPT ![r] = Answered(r, i, resp)]
             /\ Catch(r, res.err)
             /\ UNCHANGED sessionID
        ELSE /\ sessionID' = StoreSession(r, res.val)
             /\ calls' = [calls EXCEPT ![r] =
                  Append(Answered(r, i, resp),
                         Call("journeys",
                              JourneyBody(sessionID'[r], Get(fromSt[r]), Get(toSt[r]),
                                          NumberOf(Get(locals[r].dep)),
                                          locals[r].cls, AgeOf(locals[r].age))))]
             /\ pc' = [pc EXCEPT ![r] = "awaitJourneys"]
             /\ UNCHANGED <<responses, errlog>>
  /\ UNCHANGED <<locals, fromSt, toSt, handle, connections, czkRate, prices, probe>>

\* searchJourneys completes; fetchCzkRate is called.
JourneysReturn(r, Resps) ==
  /\ pc[r] = "awaitJourneys"
  /\ \E resp \in Resps :
     LET i == Pending(r, "journeys")
         res == searchJourneys(resp)
     IN IF ~res.ok
        THEN /\ calls' = [calls EXCEPT ![r] = Answered(r, i, resp)]
             /\ Catch(r, res.err)
             /\ UNCHANGED <<handle, connections>>
        ELSE /\ handle' = [handle EXCEPT ![r] = res.val.handle]
             /\ connections' = [connections EXCEPT ![r] = res.val.connections]
             /\ calls' = [calls EXCEPT ![r] =
                  Append(Answered(r, i, resp), Call("rate", [symbols |-> "CZK"]))]
             /\ pc' = [pc EXCEPT ![r] = "awaitRate"]
             /\ UNCHANGED <<responses, errlog>>
  /\ UNCHANGED <<locals, fromSt, toSt, sessionID, czkRate, prices, probe>>

\* Mutant of ConnIDs: the identifiers are sent in the reverse order.
ConnIDsReversed(conns) == [k \in 1..Len(conns) |-> conns[Len(conns) - k + 1].iID]

\* connections.map(c => c.iID)
ConnIDs(conns) == [k \in 1..Len(conns) |-> conns[k].iID]

\* fetchCzkRate completes; getPrices is called with all connection ids.
RateReturn(r, Resps) ==
  /\ pc[r] = "awaitRate"
  /\ \E resp \in Resps :
     LET i == Pending(r, "rate")
         res == fetchCzkRate(resp)
     IN IF ~res.ok
        THEN /\ calls' = [calls EXCEPT ![r] = Answered(r, i, resp)]
             /\ Catch(r, res.err)
             /\ UNCHANGED czkRate
        ELSE /\ czkRate' = [czkRate EXCEPT ![r] = Some(res.val)]
             /\ calls' = [calls EXCEPT ![r] =
                  Append(Answered(r, i, resp),
                         Call("prices",
                              PriceBody(sessionID[r], handle[r], ConnIDs(connections[r]),
                                        locals[r].cls, AgeOf(locals[r].age))))]
             /\ pc' = [pc EXCEPT ![r] = "awaitPrices"]
             /\ UNCHANGED <<responses, errlog>>
  /\ UNCHANGED <<locals, fromSt, toSt, sessionID, handle, connections, prices, probe>>

\* getPrices completes; the output is assembled and sent.
PricesReturn(r, Resps) ==
  /\ pc[r] = "awaitPrices"
  /\ \E resp \in Resps :
     LET i == Pending(r, "prices")
         res == getPrices(resp, Get(czkRate[r]))
         out == Assemble(connections[r], res.val)
     IN /\ calls' = [calls EXCEPT ![r] = Answered(r, i, resp)]
        /\ prices' = IF res.ok THEN [prices EXCEPT ![r] = Some(res.val)] ELSE prices
        /\ IF ~res.ok THEN Catch(r, res.err)
           ELSE IF ~out.ok THEN Catch(r, out.err)
           ELSE /\ responses' = [responses EXCEPT ![r] = Append(@, OkResponse(out.val))]
                /\ pc' = [pc EXCEPT ![r] = "done"]
                /\ UNCHANGED errlog
  /\ UNCHANGED <<locals, fromSt, toSt, sessionID, handle, connections, czkRate, probe>>

(***************************************************************************)
(* The environment: the queries clients send and the responses the remote  *)
(* services give.                                                          *)
(***************************************************************************)
FullQuery ==
  [from |-> Some("Praha"), to |-> Some("Brno"), dep |-> Some(<<"1", "7", "0", "0">>),
   age |-> Some(<<"2", "5">>), class |-> Some(<<"1">>)]

Queries ==
  [from : {None, Some(""), Some("Praha")},
   to : {None, Some(""), Some("Brno")},
   dep : {None, Some(<<>>), Some(<<"7">>)},
   age : {None},
   class : {None}]
  \cup {FullQuery}

StationItem(id, name) == [oItem |-> Some([iListID |-> id, sName |-> name])]
Praha == StationItem(5457076, "Praha hl.n.")
Brno == StationItem(5457233, "Brno hl.n.")

StationResponses ==
  {NetErr, Http(FALSE, None), Http(TRUE, None),
   Http(TRUE, Some([d |-> None])),
   Http(TRUE, Some([d |-> Some(<<>>)])),
   Http(TRUE, Some([d |-> Some(<<[oItem |-> None]>>)])),
   Http(TRUE, Some([d |-> Some(<<Praha>>)])),
   Http(TRUE, Some([d |-> Some(<<Brno, Praha>>)]))}

SessionResponses ==
  {NetErr, Http(FALSE, None), Http(TRUE, None),
   Http(FALSE, Some([d |-> None])), Http(TRUE, Some([d |-> None])),
   Http(TRUE, Some([d |-> Some([sSessionID |-> None])])),
   Http(TRUE, Some([d |-> Some([sSessionID |-> Some("tokA")])]))}

Leg(t1, t2, n1, n2, type, num1) ==
  [dtDateTime1 |-> t1, dtDateTime2 |-> t2, sStationName1 |-> n1, sStationName2 |-> n2,
   sType |-> type, sNum1 |-> num1, sNum2 |-> Some(<<>>), sNum3 |-> None]

LegA == Leg(DateLiteral(Some(10)), DateLiteral(Some(20)), "Praha hl.n.", "Pardubice hl.n.",
            Some(<<"E", "C">>), Some(<<"1", "2">>))
LegB == Leg(DateLiteral(Some(30)), DateLiteral(Some(40)), "Pardubice hl.n.", "Brno hl.n.",
            Some(<<"R">>), None)
LegBad == Leg(<<"/", "D", "a", "t", "e", "(", ")", "/">>, DateLiteral(Some(40)),
              "Praha hl.n.", "Brno hl.n.", None, None)

Conn(id, trains) == [iID |-> id, aoTrains |-> trains]

ConnValues ==
  {Conn(101, Some(<<LegA>>)), Conn(102, Some(<<LegA, LegB>>))}

JourneyJson(h, info) == Http(TRUE, Some([d |-> Some([iHandle |-> h, oConnInfo |-> info])]))

JourneyResponses ==
  {NetErr, Http(FALSE, None), Http(TRUE, None), Http(TRUE, Some([d |-> None])),
   JourneyJson(Some(77), None), JourneyJson(None, Some([aoConnections |-> None])),
   JourneyJson(Some(77), Some([aoConnections |-> Some(<<Conn(104, None)>>)])),
   JourneyJson(Some(77), Some([aoConnections |-> Some(<<Conn(103, Some(<<LegBad>>))>>)])),
   JourneyJson(Some(77), Some([aoConnections |-> Some(<<Conn(101, Some(<<LegA>>)),
                                                        Conn(103, Some(<<LegBad>>))>>)]))}
  \cup {JourneyJson(Some(77), Some([aoConnections |-> Some(cs)])) :
          cs \in SeqsUpTo(ConnValues, MaxConns)}

RateJson(ok, czk) == Http(ok, Some([rates |-> Some([CZK |-> czk])]))

RateResponses ==
  {NetErr, Http(FALSE, None),
   Http(FALSE, Some([rates |-> None])),
   RateJson(TRUE, None), RateJson(TRUE, Some([num |-> 0, den |-> 1])),
   RateJson(TRUE, Some([num |-> 25, den |-> 1]))}

PriceItems == {[iPrice |-> None], [iPrice |-> Some(1990)]}

PriceResponses ==
  {NetErr, Http(FALSE, None), Http(TRUE, None), Http(TRUE, Some([d |-> None]))}
  \cup {Http(TRUE, Some([d |-> Some(ps)])) : ps \in SeqsUpTo(PriceItems, MaxPrices)}

(***************************************************************************)
(* Spec: one request against every response of the environment.            *)
(***************************************************************************)
Solo == {1}

Next ==
  \E r \in Solo :
    \/ \E q \in Queries : Arrive(r, q)
    \/ \E i \in {1, 2} : StationReturn(r, i, StationResponses)
    \/ SessionReturn(r, SessionResponses)
    \/ JourneysReturn(r, JourneyResponses)
    \/ RateReturn(r, RateResponses)
    \/ PricesReturn(r, PriceResponses)

Spec == Init /\ [][Next]_vars

(***************************************************************************)
(* SpecConc: every request, their remote calls interleaved at will,        *)
(* against successful responses that differ from one call to the next.     *)
(***************************************************************************)
Ok(json) == Http(TRUE, Some(json))

OriginResponsesConc == {Ok([d |-> Some(<<Praha>>)]), Ok([d |-> Some(<<Brno, Praha>>)])}
DestResponsesConc == {Ok([d |-> Some(<<Brno>>)])}
SessionResponsesConc ==
  {Ok([d |-> Some([sSessionID |-> Some(tok)])]) : tok \in {"tokA", "tokB"}}
JourneyResponsesConc ==
  {JourneyJson(Some(77), Some([aoConnections |-> Some(<<Conn(101, Some(<<LegA>>))>>)])),
   JourneyJson(Some(78), Some([aoConnections |-> Some(<<Conn(102, Some(<<LegA, LegB>>))>>)]))}
RateResponsesConc == {RateJson(TRUE, None), RateJson(TRUE, Some([num |-> 25, den |-> 1]))}
PriceResponsesConc == {Ok([d |-> Some(<<[iPrice |-> Some(1990)]>>)])}

NextConc ==
  \E r \in Reqs :
    \/ Arrive(r, FullQuery)
    \/ StationReturn(r, 1, OriginResponsesConc)
    \/ StationReturn(r, 2, DestResponsesConc)
    \/ SessionReturn(r, SessionResponsesConc)
    \/ JourneysReturn(r, JourneyResponsesConc)
    \/ RateReturn(r, RateResponsesConc)
    \/ PricesReturn(r, PriceResponsesConc)

SpecConc == Init /\ [][NextConc]_vars

(***************************************************************************)
(* Properties.  They read the history a request leaves behind: the calls   *)
(* it issued, the responses those calls were given, what was sent to the   *)
(* client.                                                                 *)
(***************************************************************************)
CallIdx(r) == 1..Len(calls[r])
IsAnswered(r, i) == calls[r][i].resp # None
RespOf(r, i) == Get(calls[r][i].resp)
CallsOfKind(r, kind) == {i \in CallIdx(r) : calls[r][i].kind = kind}
Sent(r, code) == \E k \in 1..Len(responses[r]) : responses[r][k].status = code

\* The response carries a body the JSON parser accepts, with HTTP success.
GoodJson(resp) == resp.net /\ resp.ok /\ IsSome(resp.json)

\* The raw station response holds a first item with an oItem.
StationFound(resp) ==
  /\ GoodJson(resp)
  /\ IsSome(Get(resp.json).d)
  /\ Get(Get(resp.json).d) # <<>>
  /\ IsSome(Get(Get(resp.json).d)[1].oItem)

\* C1: a request whose from, to or dep is absent or empty is answered 400
\* with the error "Missing from, to, or dep", and issues no remote call.
C1_MissingRejected ==
  \A r \in Reqs :
    (/\ pc[r] # "idle"
     /\ \/ locals[r].from \in {None, Some("")}
        \/ locals[r].to \in {None, Some("")}
        \/ locals[r].dep \in {None, Some(<<>>)})
    => /\ responses[r] =
            <<[status |-> 400, error |-> "Missing from, to, or dep", out |-> <<>>]>>
       /\ calls[r] = <<>>

C1_Witness ==
  /\ pc[1] = "done"
  /\ locals[1].from = Some("Praha") /\ locals[1].to = Some("Brno")
  /\ locals[1].dep = Some(<<>>)
  /\ Sent(1, 400)

\* C2: the session call is issued only after both station lookups have
\* succeeded, the journey search only after the session call has returned, the
\* price lookup only after the journey search has returned, and 200 is sent
\* only after the price lookup has returned.
C2_DependencyOrder ==
  \A r \in Reqs :
    /\ \A i \in CallIdx(r) :
         /\ calls[r][i].kind = "session" =>
              \A j \in {1, 2} :
                /\ calls[r][j].kind = "station"
                /\ IsAnswered(r, j)
                /\ StationFound(RespOf(r, j))
         /\ calls[r][i].kind = "journeys" =>
              \E j \in 1..(i - 1) : calls[r][j].kind = "session" /\ IsAnswered(r, j)
         /\ calls[r][i].kind = "prices" =>
              \E j \in 1..(i - 1) : calls[r][j].kind = "journeys" /\ IsAnswered(r, j)
    /\ Sent(r, 200) => \E j \in CallsOfKind(r, "prices") : IsAnswered(r, j)

C2_Witness ==
  /\ Sent(1, 200)
  /\ [i \in CallIdx(1) |-> calls[1][i].kind] =
       <<"station", "station", "session", "journeys", "rate", "prices">>

\* The stage of a call, in the order of the pipeline.
StageRank(kind) ==
  CASE kind = "station" -> 1 [] kind = "session" -> 2 [] kind = "journeys" -> 3
    [] kind = "rate" -> 4 [] kind = "prices" -> 5

\* The message of the error the stage of the answered call i ended with
\* ("" when it did not fail); response assembly belongs to the last stage.
StageError(r, i) ==
  LET c == calls[r][i]
      resp == RespOf(r, i)
  IN CASE c.kind = "station" -> searchStation(c.body.sMask, resp).err
       [] c.kind = "session" -> createSession(resp).err
       [] c.kind = "journeys" -> searchJourneys(resp).err
       [] c.kind = "rate" -> fetchCzkRate(resp).err
       [] c.kind = "prices" ->
            LET g == getPrices(resp, Get(czkRate[r]))
            IN IF ~g.ok THEN g.err ELSE Assemble(connections[r], g.val).err

FailedCalls(r) == {i \in CallIdx(r) : IsAnswered(r, i) /\ StageError(r, i) # ""}

\* C3: when a stage of a validated request fails, the request ends with one
\* response, 500 with that error's message, no call of a later stage is
\* issued, and neither 200 nor a result array is sent.
C3_FailureAborts ==
  \A r \in Reqs :
    FailedCalls(r) # {} =>
      /\ pc[r] = "done"
      /\ \E i \in FailedCalls(r) :
           responses[r] = <<[status |-> 500, error |-> StageError(r, i), out |-> <<>>]>>
      /\ \A i \in FailedCalls(r) : \A j \in CallIdx(r) :
           StageRank(calls[r][j].kind) <= StageRank(calls[r][i].kind)

C3_Witness ==
  /\ \E i \in CallsOfKind(1, "prices") : IsAnswered(1, i) /\ GoodJson(RespOf(1, i))
  /\ prices[1] # None
  /\ Len(connections[1]) = 2
  /\ Sent(1, 500)

\* An HTTP response with a non-success status.
NonSuccess(r, i) == IsAnswered(r, i) /\ RespOf(r, i).net /\ ~RespOf(r, i).ok

\* C4 as stated: a non-success status from any of the five dependencies
\* makes the request end with 500 and never with 200.
C4_Original ==
  \A r \in Reqs : \A i \in CallIdx(r) :
    NonSuccess(r, i) =>
      /\ ~Sent(r, 200)
      /\ pc[r] = "done" => Sent(r, 500)

\* C4 amended: a non-success status from station search, session creation,
\* journey search or price lookup ends the request with a single 500; the
\* status of the exchange-rate response is not looked at: whenever its body
\* is JSON the handler goes on to the price lookup with a rate.
C4_PostNonSuccessFails ==
  \A r \in Reqs : \A i \in CallIdx(r) :
    /\ (NonSuccess(r, i) /\ calls[r][i].kind # "rate") =>
         /\ pc[r] = "done"
         /\ Len(responses[r]) = 1
         /\ responses[r][1].status = 500
    /\ (/\ calls[r][i].kind = "rate"
        /\ IsAnswered(r, i)
        /\ RespOf(r, i).net
        /\ IsSome(RespOf(r, i).json)) =>
         /\ czkRate[r] # None
         /\ CallsOfKind(r, "prices") # {}

C4_Witness ==
  /\ \E i \in CallsOfKind(1, "rate") : NonSuccess(1, i)
  /\ \E i \in CallsOfKind(1, "prices") : NonSuccess(1, i)
  /\ pc[1] = "done"
  /\ Sent(1, 500)

\* The session response is a success whose body holds no session token.
TokenOmitted(resp) ==
  /\ GoodJson(resp)
  /\ \/ ~IsSome(Get(resp.json).d)
     \/ ~IsSome(Get(Get(resp.json).d).sSessionID)

\* C5 as stated: when the session response omits the token the request ends
\* with 500, and no journey search or price lookup carries an absent token.
C5_Original ==
  \A r \in Reqs :
    /\ \A i \in CallsOfKind(r, "session") :
         (IsAnswered(r, i) /\ TokenOmitted(RespOf(r, i))) =>
           /\ pc[r] = "done"
           /\ responses[r] # <<>>
           /\ responses[r][1].status = 500
    /\ \A j \in CallsOfKind(r, "journeys") \cup CallsOfKind(r, "prices") :
         calls[r][j].body.sSessionID # None

\* The response given to the request's call of a kind (there is at most one
\* call of each kind but station).
TheCall(r, kind) == CHOOSE i \in CallsOfKind(r, kind) : TRUE
HasAnswer(r, kind) == \E i \in CallsOfKind(r, kind) : IsAnswered(r, i)
AnswerOf(r, kind) == Get(RespOf(r, TheCall(r, kind)).json)

\* What the remote services returned to request r, read off the raw bodies.
ReturnedToken(r) ==
  LET j == AnswerOf(r, "session")
  IN IF IsSome(j.d) THEN Get(j.d).sSessionID ELSE None

ReturnedStation(r, i) ==
  LET item == Get(Get(Get(RespOf(r, i).json).d)[1].oItem)
  IN [id |-> item.iListID, name |-> item.sName]

ReturnedHandle(r) == Get(AnswerOf(r, "journeys").d).iHandle

ReturnedConns(r) ==
  LET d == Get(AnswerOf(r, "journeys").d)
  IN IF IsSome(d.oConnInfo) /\ IsSome(Get(d.oConnInfo).aoConnections)
     THEN Get(Get(d.oConnInfo).aoConnections)
     ELSE <<>>

ReturnedRate(r) ==
  LET j == AnswerOf(r, "rate")
      czk == IF IsSome(j.rates) THEN Get(j.rates).CZK ELSE None
  IN IF IsSome(czk) /\ Get(czk).num # 0 THEN Get(czk) ELSE [num |-> 1, den |-> 1]

ReturnedPrices(r) ==
  LET j == AnswerOf(r, "prices")
  IN IF IsSome(j.d) THEN Get(j.d) ELSE <<>>

RawPrice(item) == IF IsSome(item.iPrice) THEN Get(item.iPrice) ELSE 0

\* The rate response, whatever its status, is JSON without a usable CZK rate.
NoUsableRate(resp) ==
  /\ resp.net
  /\ IsSome(resp.json)
  /\ \/ ~IsSome(Get(resp.json).rates)
     \/ ~IsSome(Get(Get(resp.json).rates).CZK)
     \/ Get(Get(Get(resp.json).rates).CZK).num = 0

\* C6: when the rate lookup returns no usable CZK rate the request goes on
\* with the rate 1, and in a 200 response priceEur equals priceCzk in every
\* record.
C6_RateFallback ==
  \A r \in Reqs : \A i \in CallsOfKind(r, "rate") :
    (IsAnswered(r, i) /\ NoUsableRate(RespOf(r, i))) =>
      /\ czkRate[r] = Some([num |-> 1, den |-> 1])
      /\ CallsOfKind(r, "prices") # {}
      /\ \A k \in 1..Len(responses[r]) :
           responses[r][k].status = 200 =>
             \A n \in 1..Len(responses[r][k].out) :
               responses[r][k].out[n].priceEur = responses[r][k].out[n].priceCzk

C6_Witness ==
  /\ HasAnswer(1, "rate") /\ NoUsableRate(RespOf(1, TheCall(1, "rate")))
  /\ Sent(1, 200)
  /\ Len(responses[1][1].out) = 2
  /\ responses[1][1].out[1].priceEur = 1990

\* C7: a 200 response has one record per connection the journey search
\* returned, in that order, the n-th with the n-th connection's identifier and
\* the prices of the n-th entry of the price response.
C7_PositionalZip ==
  \A r \in Reqs : \A k \in 1..Len(responses[r]) :
    responses[r][k].status = 200 =>
      LET out == responses[r][k].out
          conns == ReturnedConns(r)
          pl == ReturnedPrices(r)
      IN /\ Len(out) = Len(conns)
         /\ Len(pl) >= Len(conns)
         /\ \A n \in 1..Len(out) :
              /\ out[n].id = conns[n].iID
              /\ out[n].priceCzk = PriceOf(pl[n], ReturnedRate(r)).czk
              /\ out[n].priceEur = PriceOf(pl[n], ReturnedRate(r)).eur

C7_Witness ==
  /\ Sent(1, 200)
  /\ Len(responses[1][1].out) = 2
  /\ responses[1][1].out[1].id = responses[1][1].out[2].id
  /\ responses[1][1].out[1].priceEur = 80
  /\ responses[1][1].out[2].priceEur = 0
  /\ Len(ReturnedPrices(1)) = 3

\* C8 as stated: the price list getPrices produces is as long as the list of
\* connection identifiers it was given.
C8_Original ==
  \A r \in Reqs :
    prices[r] # None =>
      Len(Get(prices[r])) = Len(calls[r][TheCall(r, "prices")].body.aiConnID)

\* C8 amended: the price list getPrices produces has the length and the order
\* of the entries of the price response (json.d, or none when it is absent):
\* its n-th price is the n-th entry's amount.
C8_PricesFollowResponse ==
  \A r \in Reqs :
    prices[r] # None =>
      /\ Len(Get(prices[r])) = Len(ReturnedPrices(r))
      /\ \A n \in 1..Len(ReturnedPrices(r)) :
           Get(prices[r])[n].czk = RawPrice(ReturnedPrices(r)[n])

C8_Witness ==
  /\ prices[1] # None
  /\ Len(Get(prices[1])) = 3
  /\ Get(prices[1])[1].czk = 0 /\ Get(prices[1])[2].czk = 1990
  /\ Len(calls[1][TheCall(1, "prices")].body.aiConnID) = 1

\* C9: a request issues at most one price lookup, and its identifier list is
\* the identifiers of all the connections the journey search returned, in
\* that order.
C9_SingleBatchedCall ==
  \A r \in Reqs :
    /\ Cardinality(CallsOfKind(r, "prices")) <= 1
    /\ \A i \in CallsOfKind(r, "prices") :
         calls[r][i].body.aiConnID =
           [n \in 1..Len(ReturnedConns(r)) |-> ReturnedConns(r)[n].iID]

C9_Witness ==
  /\ CallsOfKind(1, "prices") # {}
  /\ calls[1][TheCall(1, "prices")].body.aiConnID = <<102, 101>>
  /\ pc[1] = "done"

\* C10: with the calls of several requests interleaved, each request issues
\* its own session call, and its journey search, price lookup and response use
\* the token, stations, handle, connections and rate returned to its own calls.
C10_Isolation ==
  \A r \in Reqs :
    /\ \A i \in CallsOfKind(r, "journeys") :
         /\ \E j \in 1..(i - 1) : calls[r][j].kind = "session" /\ IsAnswered(r, j)
         /\ calls[r][i].body.sSessionID = ReturnedToken(r)
         /\ calls[r][i].body.oFrom = ReturnedStation(r, 1)
         /\ calls[r][i].body.oTo = ReturnedStation(r, 2)
    /\ \A i \in CallsOfKind(r, "prices") :
         /\ calls[r][i].body.sSessionID = ReturnedToken(r)
         /\ calls[r][i].body.iHandle = ReturnedHandle(r)
         /\ calls[r][i].body.aiConnID =
              [n \in 1..Len(ReturnedConns(r)) |-> ReturnedConns(r)[n].iID]
    /\ \A k \in 1..Len(responses[r]) :
         responses[r][k].status = 200 =>
           LET out == responses[r][k].out
           IN /\ Len(out) = Len(ReturnedConns(r))
              /\ \A n \in 1..Len(out) :
                   /\ out[n].id = ReturnedConns(r)[n].iID
                   /\ out[n].transfers = Len(Get(ReturnedConns(r)[n].aoTrains)) - 1
                   /\ out[n].priceCzk = RawPrice(ReturnedPrices(r)[n])
                   /\ out[n].priceEur =
                        PriceOf(ReturnedPrices(r)[n], ReturnedRate(r)).eur

C10_Witness ==
  /\ pc[1] = "awaitPrices" /\ pc[2] = "awaitPrices"
  /\ calls[1][TheCall(1, "prices")].body.sSessionID = Some("tokA")
  /\ calls[2][TheCall(2, "prices")].body.sSessionID = Some("tokB")
  /\ calls[1][TheCall(1, "prices")].body.iHandle # calls[2][TheCall(2, "prices")].body.iHandle
  /\ czkRate[1] # czkRate[2]
  /\ fromSt[1] # fromSt[2]

(***************************************************************************)
(* SpecPrice: the price conversion of getPrices on its own, for every raw  *)
(* amount up to MaxRawPrice and a set of positive rates.                   *)
(***************************************************************************)
hvars == <<pc, locals, fromSt, toSt, sessionID, handle, connections,
           czkRate, prices, calls, responses, errlog>>

ProbeRates ==
  {[num |-> 1, den |-> 1], [num |-> 2, den |-> 1], [num |-> 25, den |-> 1],
   [num |-> 5, den |-> 2], [num |-> 2531, den |-> 100], [num |-> 1, den |-> 3]}

InitPrice ==
  /\ NoRequest
  /\ probe \in {[item |-> [iPrice |-> Some(p)], rate |-> rate, out |-> None] :
                  p \in 0..MaxRawPrice, rate \in ProbeRates}

ConvertPrice ==
  /\ probe.out = None
  /\ probe' = [probe EXCEPT !.out = Some(PriceOf(probe.item, probe.rate))]
  /\ UNCHANGED hvars

NextPrice == ConvertPrice

SpecPrice == InitPrice /\ [][NextPrice]_vars

\* n is the number of hundredths nearest to the rational a/b, the larger of
\* two equally near: round2(a/b), in hundredths.
IsRound2(n, a, b) == -b < 2 * (n * b - 100 * a) /\ 2 * (n * b - 100 * a) <= b

LoggedBefore(r, k) ==
  \E j \in 1..Len(errlog[r]) :
    /\ errlog[r][j].msg = responses[r][k].error
    /\ errlog[r][j].at < k

\* C12: every error response of a request, HTTP 400 for missing parameters
\* as well as HTTP 500 for a stage failure, is logged before it is sent.
C12_Original ==
  \A r \in Reqs : \A k \in 1..Len(responses[r]) :
    responses[r][k].status \in {400, 500} => LoggedBefore(r, k)

(***************************************************************************)
(* C13: transfers and legs of a record.                                    *)
(***************************************************************************)
\* C13: in a 200 response every record has as many legs as the connection
\* the journey search returned, in the same order, and transfers is that
\* number minus one; a connection of one leg has no transfer.
C13_TransfersAndLegs ==
  \A r \in Reqs : \A k \in 1..Len(responses[r]) :
    responses[r][k].status = 200 =>
      LET out == responses[r][k].out
          conns == ReturnedConns(r)
      IN \A n \in 1..Len(out) :
           LET trains == Get(conns[n].aoTrains)
           IN /\ out[n].transfers = Len(trains) - 1
              /\ Len(trains) = 1 => out[n].transfers = 0
              /\ Len(out[n].legs) = Len(trains)
              /\ \A j \in 1..Len(trains) :
                   /\ out[n].legs[j].depName = trains[j].sStationName1
                   /\ out[n].legs[j].destName = trains[j].sStationName2

C13_Witness ==
  /\ Sent(1, 200)
  /\ Len(responses[1][1].out) = 2
  /\ responses[1][1].out[1].transfers = 0
  /\ Len(responses[1][1].out[1].legs) = 1
  /\ responses[1][1].out[2].transfers = 1
  /\ Len(responses[1][1].out[2].legs) = 2
  /\ responses[1][1].out[2].legs[1].destName = "Pardubice hl.n."
  /\ responses[1][1].out[2].legs[2].destName = "Brno hl.n."

(***************************************************************************)
(* C14: lineName, run on its own on every choice of the four tokens.  The  *)
(* token at position i is absent, empty, or made of spaces and of one      *)
(* letter or digit of its own, so that the order of the tokens shows.      *)
(***************************************************************************)
TokChar == <<"E", "1", "2", "3">>

Tokens(i) == {None} \cup {Some(s) : s \in SeqsUpTo({TokChar[i], " "}, MaxTokLen)}

InitLine ==
  /\ NoRequest
  /\ probe \in {[leg |-> [sType |-> a, sNum1 |-> b, sNum2 |-> c, sNum3 |-> d],
                 out |-> None] :
                  a \in Tokens(1), b \in Tokens(2), c \in Tokens(3), d \in Tokens(4)}

BuildLineName ==
  /\ probe.out = None
  /\ probe' = [probe EXCEPT !.out = Some(lineName(probe.leg))]
  /\ UNCHANGED hvars

NextLine == BuildLineName

SpecLine == InitLine /\ [][NextLine]_vars

\* The tokens of a leg in order, and the positions of those that are neither
\* absent nor empty.
TokensOf(leg) == <<leg.sType, leg.sNum1, leg.sNum2, leg.sNum3>>
Kept(leg) == {i \in 1..4 : TokensOf(leg)[i] # None /\ TokensOf(leg)[i] # Some(<<>>)}

\* The kept tokens from position i on, one space between neighbours.
RECURSIVE JoinedFrom(_, _)
JoinedFrom(leg, i) ==
  IF i > 4 THEN <<>>
  ELSE IF i \notin Kept(leg) THEN JoinedFrom(leg, i + 1)
  ELSE Get(TokensOf(leg)[i])
         \o (IF \E j \in Kept(leg) : j > i THEN <<" ">> ELSE <<>>)
         \o JoinedFrom(leg, i + 1)

AllSpaces(s) == \A i \in 1..Len(s) : s[i] = " "

\* C14: lineName is the four tokens in order, the empty and absent ones
\* dropped and the others joined by one space, without the spaces at its two
\* ends; it is empty when all four are empty or absent.
C14_LineName ==
  probe # None /\ probe.out # None =>
    LET name == Get(probe.out)
        full == JoinedFrom(probe.leg, 1)
    IN /\ name # <<>> => name[1] # " " /\ name[Len(name)] # " "
       /\ \E a \in 0..Len(full) :
            /\ a + Len(name) <= Len(full)
            /\ SubSeq(full, a + 1, a + Len(name)) = name
            /\ AllSpaces(SubSeq(full, 1, a))
            /\ AllSpaces(SubSeq(full, a + Len(name) + 1, Len(full)))
       /\ Kept(probe.leg) = {} => name = <<>>

C14_Witness ==
  /\ probe # None /\ probe.out # None
  /\ probe.leg = [sType |-> Some(<<"E", "E">>), sNum1 |-> Some(<<"1">>),
                  sNum2 |-> Some(<<>>), sNum3 |-> None]
  /\ Get(probe.out) = <<"E", "E", " ", "1">>

(***************************************************************************)
(* C15: the timestamp round trip, run on its own: a millisecond value is   *)
(* serialized as searchJourneys serializes depMs and parsed by parseDate.  *)
(***************************************************************************)
InitDate ==
  /\ NoRequest
  /\ probe \in {[ms |-> m, raw |-> None, out |-> None] : m \in -MaxMs..MaxMs}

Serialize ==
  /\ probe.raw = None
  /\ probe' = [probe EXCEPT !.raw = Some(DateLiteral(Some(probe.ms)))]
  /\ UNCHANGED hvars

Parse ==
  /\ probe.raw # None
  /\ probe.out = None
  /\ probe' = [probe EXCEPT !.out = Some(parseDate(Get(probe.raw)))]
  /\ UNCHANGED hvars

NextDate == Serialize \/ Parse

SpecDate == InitDate /\ [][NextDate]_vars

\* C15: for every integer m, parseDate of the literal /Date(m)/ is the
\* instant whose epoch-millisecond value is m.
C15_Original ==
  probe # None /\ probe.out # None =>
    Get(probe.out).ok /\ Get(probe.out).val = probe.ms

(***************************************************************************)
(* C16: the place of the exchange-rate lookup.                             *)
(***************************************************************************)
\* The raw journey response is one searchJourneys accepts.
JourneysFound(resp) == GoodJson(resp) /\ IsSome(Get(resp.json).d)

\* C16: the rate lookup is issued only after the journey search has returned
\* successfully, the price lookup only after the rate lookup has completed
\* and the rate is stored, prices are converted only with the rate known, and
\* a request whose station lookup, session creation or journey search failed
\* issues no rate lookup.
C16_RateOrder ==
  \A r \in Reqs :
    /\ \A i \in CallIdx(r) :
         /\ calls[r][i].kind = "rate" =>
              \E j \in 1..(i - 1) :
                /\ calls[r][j].kind = "journeys"
                /\ IsAnswered(r, j)
                /\ JourneysFound(RespOf(r, j))
         /\ calls[r][i].kind = "prices" =>
              /\ \E j \in 1..(i - 1) : calls[r][j].kind = "rate" /\ IsAnswered(r, j)
              /\ czkRate[r] = Some(ReturnedRate(r))
    /\ prices[r] # None => czkRate[r] # None
    /\ (\E i \in FailedCalls(r) : calls[r][i].kind \in {"station", "session", "journeys"})
         => CallsOfKind(r, "rate") = {}

C16_Witness ==
  /\ pc[1] = "awaitPrices"
  /\ [i \in CallIdx(1) |-> calls[1][i].kind] =
       <<"station", "station", "session", "journeys", "rate", "prices">>
  /\ IsAnswered(1, 5) /\ ~IsAnswered(1, 6)
  /\ czkRate[1] = Some([num |-> 25, den |-> 1])
  /\ responses[1] = <<>>

(***************************************************************************)
(* C17: the join of the two station lookups.                               *)
(***************************************************************************)
\* C17: both station lookups are issued before the handler awaits either;
\* once either has failed the request has ended with one response, HTTP 500,
\* whether or not the other lookup has completed, and has issued no session
\* call and no other call.
C17_FailFastJoin ==
  \A r \in Reqs :
    /\ pc[r] = "awaitStations" =>
         /\ Len(calls[r]) = 2
         /\ \A i \in {1, 2} : calls[r][i].kind = "station"
         /\ calls[r][1].body.sMask = Get(locals[r].from)
         /\ calls[r][2].body.sMask = Get(locals[r].to)
         /\ ~IsAnswered(r, 1) \/ ~IsAnswered(r, 2)
    /\ \A i \in CallIdx(r) :
         calls[r][i].kind = "station" /\ IsAnswered(r, i) /\ ~StationFound(RespOf(r, i)) =>
           /\ pc[r] = "done"
           /\ Len(responses[r]) = 1
           /\ responses[r][1].status = 500
           /\ Len(calls[r]) = 2
           /\ CallsOfKind(r, "session") = {}

\* The origin lookup failed first; the destination lookup then found its
\* station, which the handler never stored.
C17_Witness ==
  /\ Len(calls[1]) = 2
  /\ IsAnswered(1, 1) /\ ~StationFound(RespOf(1, 1))
  /\ IsAnswered(1, 2) /\ StationFound(RespOf(1, 2))
  /\ toSt[1] = None
  /\ Len(responses[1]) = 1
  /\ responses[1][1].status = 500

(***************************************************************************)
(* C18: one linear attempt.                                                *)
(***************************************************************************)
\* C18: a request issues at most two station calls, the first with the from
\* mask and the second with the to mask, at most one call of each other
\* kind, at most six calls in all, and no call after a call that failed
\* (only the second station call may stand after a failed first one, being
\* issued with it).
C18_SingleAttempt ==
  \A r \in Reqs :
    /\ Cardinality(CallsOfKind(r, "station")) <= 2
    /\ CallsOfKind(r, "station") \subseteq {1, 2}
    /\ \A kind \in {"session", "journeys", "rate", "prices"} :
         Cardinality(CallsOfKind(r, kind)) <= 1
    /\ Len(calls[r]) <= 6
    /\ \A i \in FailedCalls(r) : Len(calls[r]) <= (IF i <= 2 THEN 2 ELSE i)

\* All six calls were issued and the last one, the price lookup, failed.
C18_Witness ==
  /\ Len(calls[1]) = 6
  /\ FailedCalls(1) = {6}
  /\ pc[1] = "done"
  /\ Len(responses[1]) = 1
  /\ responses[1][1].status = 500

(***************************************************************************)
(* SpecLive: one request whose remote calls all complete.  Every call in   *)
(* flight is eventually answered by its service (weak fairness of each     *)
(* completion), with a failure or a success; the Node event loop then runs *)
(* the handler's continuation to its next await.  The arrival of the       *)
(* request itself is not forced.                                           *)
(***************************************************************************)
JourneyResponsesLive ==
  {NetErr, Http(TRUE, Some([d |-> None])),
   JourneyJson(Some(77), Some([aoConnections |-> Some(<<>>)])),
   JourneyJson(Some(77), Some([aoConnections |-> Some(<<Conn(103, Some(<<LegBad>>))>>)]))}
  \cup JourneyResponsesConc

PriceResponsesLive ==
  {NetErr, Http(FALSE, None), Http(TRUE, Some([d |-> None]))} \cup PriceResponsesConc

NextLive ==
  \E r \in Solo :
    \/ \E q \in Queries : Arrive(r, q)
    \/ StationReturn(r, 1, StationResponses)
    \/ StationReturn(r, 2, StationResponses)
    \/ SessionReturn(r, SessionResponses)
    \/ JourneysReturn(r, JourneyResponsesLive)
    \/ RateReturn(r, RateResponses)
    \/ PricesReturn(r, PriceResponsesLive)

CallsComplete ==
  \A r \in Solo :
    /\ WF_vars(StationReturn(r, 1, StationResponses))
    /\ WF_vars(StationReturn(r, 2, StationResponses))
    /\ WF_vars(SessionReturn(r, SessionResponses))
    /\ WF_vars(JourneysReturn(r, JourneyResponsesLive))
    /\ WF_vars(RateReturn(r, RateResponses))
    /\ WF_vars(PricesReturn(r, PriceResponsesLive))

SpecLive == Init /\ [][NextLive]_vars /\ CallsComplete

\* C19: when every issued remote call completes, a request that has arrived
\* is eventually answered, and no request is ever sent a second response.
C19_OneResponse ==
  /\ \A r \in Reqs : (pc[r] # "idle") ~> (Len(responses[r]) = 1)
  /\ [](\A r \in Reqs : Len(responses[r]) <= 1)

\* All six calls have completed and the request has its one response, a 200.
C19_Witness ==
  /\ pc[1] = "done"
  /\ Len(calls[1]) = 6
  /\ \A i \in CallIdx(1) : IsAnswered(1, i)
  /\ Len(responses[1]) = 1
  /\ responses[1][1].status = 200

====
